---------------------------- MODULE Spec2Model ----------------------------
(* The AI scoring engine of paper_pipeline.py (run_ai_scoring, _call_ai,   *)
(* _load_checkpoint, _save_checkpoint, _load_existing_results_from_output) *)
(* as a state machine: one collector (the main thread), one worker per     *)
(* submitted batch, the two files the engine keeps on disk, and process    *)
(* kills and relaunches; and the item frame fetch_from_dblp hands to the   *)
(* engine in successive runs of run_full_pipeline.                         *)
EXTENDS Integers, Sequences, FiniteSets, TLC

VARIABLES
    tieOrder,       \* how the build's quicksort orders rows of equal score
    outFile,        \* the final output file (output_path)
    ckptFile,       \* the checkpoint file (output_path + ".ckpt.json")
    pc,             \* position of the main thread of run_ai_scoring
    results_map,    \* run_ai_scoring's results_map
    chunks,         \* the row_ids lists kept in future_to_indices, by batch
    fut,            \* one future per batch: the worker's state inside _call_ai
    saved,          \* batches whose _save_checkpoint call has returned
    runs,           \* number of runs started so far
    resolvedAtStart,\* ids found in the prior output or the checkpoint at start
    prevOut,        \* the output file as it was when the run started
    prevDone,       \* whether the previous run ended by writing its output
    prevCkpt,       \* the checkpoint file as it was when the run started
    resume,         \* PipelineRunConfig.resume
    probe           \* a helper applied on its own: its inputs and its result

vars == <<tieOrder, outFile, ckptFile, pc, results_map, chunks, fut, saved,
          runs, resolvedAtStart, prevOut, prevDone, prevCkpt, resume, probe>>

-----------------------------------------------------------------------------
(* Bounds of the model. *)

\* Rows of the input frame, AIConfig.batch_size, AIConfig.max_workers, and
\* the number of times the engine is launched.
NumItems == 3
batch_size == 2
max_workers == 1
MaxRuns == 2

\* The helpers applied on their own: rows and batch sizes for the batching,
\* batch lengths for the merge.
MaxProbeRows == 12
MaxProbeBatch == 5
MaxMergeLen == 3

\* Rows of the batch of a call of _call_ai taken on its own.
MaxCallLen == 2

\* Entries of a map saved and loaded on its own.
MaxSavedIds == 2

\* Records DBLP returns to the fetching step.
MaxFetched == 3

(* Program constants. *)

max_retries == 3
base_delay == 5

Scores == {1, 2}

\* df["RowId"] = df.index: the rows of the input frame, in input order.
Items == [i \in 1..NumItems |-> i]

-----------------------------------------------------------------------------
(* Small helpers. *)

Min(a, b) == IF a < b THEN a ELSE b

Range(s) == {s[i] : i \in DOMAIN s}

EmptyMap == [k \in {} |-> 0]

\* Update as an assignment: what m held is dropped.
Overwrite(m, other) == other

\* dict.update(other)
Update(m, other) ==
    [k \in (DOMAIN m) \cup (DOMAIN other) |->
        IF k \in DOMAIN other THEN other[k] ELSE m[k]]

\* dict.get(key, default)
Get(d, key, default) == IF key \in DOMAIN d THEN d[key] ELSE default

RECURSIVE SetToSeq(_)
\* The elements of a finite set of integers in ascending order.
SetToSeq(S) ==
    IF S = {} THEN <<>>
    ELSE LET m == CHOOSE x \in S : \A y \in S : x <= y
         IN  <<m>> \o SetToSeq(S \ {m})

Reverse(s) == [i \in 1..Len(s) |-> s[Len(s) + 1 - i]]


-----------------------------------------------------------------------------
(* The two files on disk. *)

\* str(k) for a key k >= 0, as json.dump({str(k): v ...}) writes it: the
\* decimal digits of k, most significant first.
RECURSIVE ToStr(_)
ToStr(k) == IF k < 10 THEN <<k>> ELSE ToStr(k \div 10) \o <<k % 10>>

\* ToInt reading the last digit only.
ToIntLastDigit(s) == s[Len(s)]

\* int(s) for a text of decimal digits, as _load_checkpoint reads a key back.
RECURSIVE ToInt(_)
ToInt(s) ==
    IF Len(s) = 1 THEN s[1]
    ELSE 10 * ToInt(SubSeq(s, 1, Len(s) - 1)) + s[Len(s)]

NoOutput == [exists |-> FALSE, rows |-> <<>>]

NoCheckpoint == [exists |-> FALSE, closed |-> FALSE, entries |-> <<>>]

\* open(path, "w"): the file exists and is empty; nothing of the JSON text has
\* reached it yet.
OpenForWrite == [exists |-> TRUE, closed |-> FALSE, entries |-> <<>>]

\* The entries json.dump serialises, {str(k): v for k, v in data.items()}.
Serialise(data) ==
    LET keys == SetToSeq(DOMAIN data)
    IN  [i \in 1..Len(keys) |-> [k |-> ToStr(keys[i]), v |-> data[keys[i]]]]

\* WholeFile with only the newest entry written: what a save of the current
\* batch alone, not of the whole map, would leave.
WholeFileNewestOnly(data) ==
    [exists |-> TRUE, closed |-> TRUE,
     entries |-> SubSeq(Serialise(data), Len(Serialise(data)), Len(Serialise(data)))]

\* The file once the with-block has closed it: the whole JSON text.
WholeFile(data) == [exists |-> TRUE, closed |-> TRUE, entries |-> Serialise(data)]

\* The file when only the first n entries have been flushed.
PartFile(data, n) ==
    [exists |-> TRUE, closed |-> FALSE, entries |-> SubSeq(Serialise(data), 1, n)]

_load_checkpoint(file) ==
    IF ~file.exists THEN EmptyMap
    ELSE IF ~file.closed THEN EmptyMap     \* json.load raises: except -> {}
    ELSE [id \in {ToInt(file.entries[i].k) : i \in DOMAIN file.entries} |->
            LET i == CHOOSE i \in DOMAIN file.entries : ToInt(file.entries[i].k) = id
            IN  file.entries[i].v]

\* Line 300: the key under which the i-th row of an output file is loaded,
\* int(row["RowId"]) if the file has a RowId column, otherwise the label
\* iterrows gives the row, its position in the file (counted as the RowIds of
\* Items are, from the first row of the frame).
RowKey(file, i) ==
    IF "RowId" \in DOMAIN file.rows[i] THEN file.rows[i].RowId ELSE i

_load_existing_results_from_output(file) ==
    IF ~file.exists THEN EmptyMap
    ELSE [id \in {RowKey(file, i) : i \in DOMAIN file.rows} |->
            LET i == CHOOSE i \in DOMAIN file.rows :
                        /\ RowKey(file, i) = id
                        /\ \A k \in DOMAIN file.rows : RowKey(file, k) = id => k <= i
            IN  [score |-> file.rows[i].AI_Score, reason |-> file.rows[i].AI_Reason]]

\* LoadResults with the checkpoint left out.
LoadResultsOutputOnly(out, ckpt) == _load_existing_results_from_output(out)

\* Lines 318-320: results of the prior output, then those of the checkpoint
\* over them.
LoadResults(out, ckpt) ==
    Update(_load_existing_results_from_output(out), _load_checkpoint(ckpt))

-----------------------------------------------------------------------------
(* The final output: the input rows joined with results_map, sorted. *)

RECURSIVE SortByScoreAscending(_, _, _)
\* SortByScore with ascending left at its default: lowest score first.
SortByScoreAscending(rows, scores, tie) ==
    IF scores = {} THEN <<>>
    ELSE LET low == CHOOSE s \in scores : \A t \in scores : s <= t
             same == SelectSeq(rows, LAMBDA r : r.AI_Score = low)
         IN  (IF tie = "input" THEN same ELSE Reverse(same))
                 \o SortByScoreAscending(rows, scores \ {low}, tie)

RECURSIVE SortByScore(_, _, _)
\* df.sort_values(by="AI_Score", ascending=False): rows by descending score;
\* rows of one score in input order or in reverse, as the build's sort has it.
SortByScore(rows, scores, tie) ==
    IF scores = {} THEN <<>>
    ELSE LET top == CHOOSE s \in scores : \A t \in scores : t <= s
             same == SelectSeq(rows, LAMBDA r : r.AI_Score = top)
         IN  (IF tie = "input" THEN same ELSE Reverse(same))
                 \o SortByScore(rows, scores \ {top}, tie)

OutputRows(rm, tie) ==
    LET rows == [i \in 1..Len(Items) |->
                    [RowId |-> Items[i],
                     AI_Score |-> Get(Get(rm, Items[i], EmptyMap), "score", 0),
                     AI_Reason |-> Get(Get(rm, Items[i], EmptyMap), "reason",
                                       "processing_missed")]]
    IN  SortByScore(rows, {rows[i].AI_Score : i \in DOMAIN rows}, tie)

WriteOutput(rm, tie) == [exists |-> TRUE, rows |-> OutputRows(rm, tie)]

\* The output file as step3's run_analysis_parallel writes it (lines 169-174):
\* the same join and sort, and no RowId column.
WriteOutputNoRowId(rm, tie) ==
    [exists |-> TRUE,
     rows |-> [i \in DOMAIN OutputRows(rm, tie) |->
                  [AI_Score |-> OutputRows(rm, tie)[i].AI_Score,
                   AI_Reason |-> OutputRows(rm, tie)[i].AI_Reason]]]

-----------------------------------------------------------------------------
(* Pending rows and their batches. *)

\* Pending with the filter forgotten: every row is pending.
PendingAll(rows, rm) == rows

\* df[df["RowId"].map(lambda x: x not in results_map)]
Pending(rows, rm) == SelectSeq(rows, LAMBDA id : id \notin DOMAIN rm)

\* Chunks with the range stopping at the last full batch: a shorter last
\* batch is dropped.
ChunksFullOnly(pending, b) ==
    [c \in 1..(Len(pending) \div b) |-> SubSeq(pending, (c - 1) * b + 1, c * b)]

\* [pending_df.iloc[i : i + batch_size] for i in range(0, len(pending_df), batch_size)]
Chunks(pending, b) ==
    [c \in 1..((Len(pending) + b - 1) \div b) |->
        SubSeq(pending, (c - 1) * b + 1, Min(c * b, Len(pending)))]

-----------------------------------------------------------------------------
(* What the remote service can do on one call, and the values its reply    *)
(* parses to.                                                              *)

\* Python values json.loads can return, as far as run_ai_scoring tells them
\* apart: a list of elements, a dict (truthy, not a list), null (falsy).
\* None is what _call_ai returns for "no result".
None == [kind |-> "None", elems |-> <<>>]

PyList(es) == [kind |-> "list", elems |-> es]

PyDict == [kind |-> "dict", elems |-> <<>>]

PyNull == [kind |-> "null", elems |-> <<>>]

\* An element of a reply array: a JSON object (with its fields) or not one.
Obj(fields) == [obj |-> TRUE, f |-> fields]

NonObj == [obj |-> FALSE, f |-> [id |-> 0]]

ServiceReason(s) == IF s = 1 THEN "weak" ELSE "strong"

\* Arrays of m score/reason objects; the id field counts up or down.
ObjLists(m) ==
    { [j \in 1..m |->
          Obj([id |-> IF up THEN j ELSE m + 1 - j,
               score |-> sc[j], reason |-> ServiceReason(sc[j])])] :
      sc \in [1..m -> Scores], up \in BOOLEAN }

\* The JSON documents the service may answer a batch of n items with.
Documents(n) ==
    { [valid |-> TRUE, errpos |-> 0, value |-> PyList(es)] :
        es \in UNION {ObjLists(m) : m \in 0..n}
               \cup { <<NonObj>>, <<Obj([id |-> 1])>>,
                      <<Obj([id |-> 1, score |-> 2, reason |-> "strong"]), NonObj>> } }
    \cup { [valid |-> TRUE, errpos |-> 0, value |-> v] : v \in {PyDict, PyNull} }
    \cup { [valid |-> FALSE, errpos |-> p, value |-> PyNull] : p \in {0, 429} }

\* One call of client.chat.completions.create: it raises, or returns a text,
\* possibly wrapped in a Markdown code fence.
Outcomes(n) ==
    { [exc |-> e, fenced |-> FALSE, doc |-> [valid |-> FALSE, errpos |-> 0, value |-> PyNull]] :
        e \in {"RateLimited", "Timeout", "Transport"} }
    \cup { [exc |-> "none", fenced |-> fc, doc |-> d] :
             fc \in BOOLEAN, d \in Documents(n) }

\* raw_text.replace("```json", "").replace("```", "").strip()
StripFence(text) == [text EXCEPT !.fenced = FALSE]

\* json.loads: a fenced or invalid text raises JSONDecodeError, whose message
\* ends with the position of the error, "(char <errpos>)".
JsonLoads(text) ==
    IF text.fenced \/ ~text.doc.valid
    THEN [raised |-> TRUE, pos |-> text.doc.errpos, value |-> PyNull]
    ELSE [raised |-> FALSE, pos |-> 0, value |-> text.doc.value]

\* "429" in str(exc) or "rate limit" in str(exc).lower(), for the exception
\* one attempt ends with: the service's rate-limit error carries its status
\* code 429, a timeout or a connection error carries neither text, and a
\* JSONDecodeError carries the position of the error.
MentionsRateLimit(kind, pos) ==
    \/ kind = "RateLimited"
    \/ kind = "MalformedResponse" /\ pos = 429

\* CallAiAttempt with a sleep that does not grow with the attempt.
CallAiAttemptFlat(attempt, out) ==
    LET parsed == JsonLoads(StripFence(out))
        kind == IF out.exc # "none" THEN out.exc
                ELSE IF parsed.raised THEN "MalformedResponse" ELSE "none"
    IN  IF kind = "none"
        THEN [fail |-> "none", again |-> FALSE, sleep |-> 0, value |-> parsed.value]
        ELSE IF MentionsRateLimit(kind, parsed.pos) /\ attempt < max_retries - 1
        THEN [fail |-> kind, again |-> TRUE, sleep |-> base_delay, value |-> None]
        ELSE [fail |-> kind, again |-> FALSE, sleep |-> 0, value |-> None]

\* One iteration of the loop of _call_ai, attempt = 0, 1, 2: what the
\* attempt failed as ("none": it did not), whether the loop goes on, the
\* time slept before it does, and the value returned when it does not.
CallAiAttempt(attempt, out) ==
    LET parsed == JsonLoads(StripFence(out))
        kind == IF out.exc # "none" THEN out.exc
                ELSE IF parsed.raised THEN "MalformedResponse" ELSE "none"
    IN  IF kind = "none"
        THEN [fail |-> "none", again |-> FALSE, sleep |-> 0, value |-> parsed.value]
        ELSE IF MentionsRateLimit(kind, parsed.pos) /\ attempt < max_retries - 1
        THEN [fail |-> kind, again |-> TRUE, sleep |-> base_delay * (attempt + 1),
              value |-> None]
        ELSE [fail |-> kind, again |-> FALSE, sleep |-> 0, value |-> None]

-----------------------------------------------------------------------------
(* The collector's merge of one completed batch, lines 352-359. *)

DefaultResult == [score |-> 0, reason |-> "AI_insufficient_or_failed"]

\* ai_results and isinstance(ai_results, list)
UsableList(v) == v.kind = "list" /\ Len(v.elems) > 0

RECURSIVE MergeBatchById(_, _, _, _)
\* MergeBatch with the element looked up by its id field, not by position.
MergeBatchById(rm, row_ids, ai_results, j) ==
    IF j > Len(row_ids) THEN [map |-> rm, raised |-> FALSE]
    ELSE LET hits == {i \in DOMAIN ai_results.elems :
                        ai_results.elems[i].obj /\ ai_results.elems[i].f.id = j}
         IN  IF UsableList(ai_results) /\ hits # {}
             THEN LET e == ai_results.elems[CHOOSE i \in hits : TRUE]
                  IN  MergeBatchById(
                        Update(rm, [k \in {row_ids[j]} |->
                            [score |-> Get(e.f, "score", 0),
                             reason |-> Get(e.f, "reason", "no_reason")]]),
                        row_ids, ai_results, j + 1)
             ELSE MergeBatchById(Update(rm, [k \in {row_ids[j]} |-> DefaultResult]),
                                 row_ids, ai_results, j + 1)

RECURSIVE MergeBatch(_, _, _, _)
\* for j, row_id in enumerate(indices): ...   (j counts from 1 here).
\* ai_results[j].get raises AttributeError on an element that is no object:
\* the loop stops there, with the entries written so far.
MergeBatch(rm, row_ids, ai_results, j) ==
    IF j > Len(row_ids) THEN [map |-> rm, raised |-> FALSE]
    ELSE IF UsableList(ai_results) /\ j <= Len(ai_results.elems)
    THEN IF ~ai_results.elems[j].obj THEN [map |-> rm, raised |-> TRUE]
         ELSE MergeBatch(
                Update(rm, [k \in {row_ids[j]} |->
                    [score |-> Get(ai_results.elems[j].f, "score", 0),
                     reason |-> Get(ai_results.elems[j].f, "reason", "no_reason")]]),
                row_ids, ai_results, j + 1)
    ELSE MergeBatch(Update(rm, [k \in {row_ids[j]} |-> DefaultResult]),
                    row_ids, ai_results, j + 1)

\* _build_prompt: the request lists the rows of the chunk in order, each under
\* its positional label i+1.
_build_prompt(chunk) == [j \in 1..Len(chunk) |-> [label |-> j, row |-> chunk[j]]]

\* row_ids = [int(chunk.iloc[j]["RowId"]) for j in range(len(indices))]
RowIds(chunk) == [j \in 1..Len(_build_prompt(chunk)) |-> chunk[j]]

-----------------------------------------------------------------------------
(* The state machine. *)

\* A future as executor.submit leaves it. While its worker is inside _call_ai
\* it carries the number of attempts the loop has made; once _call_ai has
\* returned it holds the returned value.
Queued == [st |-> "queued", attempt |-> 0, result |-> None]

\* A future the collector is through with.
Handled == [st |-> "handled", attempt |-> 0, result |-> None]

Batches == DOMAIN chunks

Alive == pc \in {"collect", "saving", "raised"}

\* Busy for a pool that counts no thread as taken.
BusyNone == {}

Busy == {b \in Batches : fut[b].st = "running"}

Init ==
    /\ tieOrder \in {"input", "reversed"}
    /\ outFile = NoOutput
    /\ ckptFile = NoCheckpoint
    /\ pc = "init"
    /\ results_map = EmptyMap
    /\ chunks = <<>>
    /\ fut = <<>>
    /\ saved = {}
    /\ runs = 0
    /\ resolvedAtStart = {}
    /\ prevOut = NoOutput
    /\ prevDone = FALSE
    /\ prevCkpt = NoCheckpoint
    /\ resume = TRUE
    /\ probe = [op |-> "none"]

\* run_ai_scoring up to the end of the submit loop (lines 308-342), or up to
\* its early return when nothing is pending (lines 324-330). A run that
\* raised has left the executor's with-block, which waits for every worker.
\* run_ai_scoring takes no resume argument: run_full_pipeline hands
\* run_cfg.resume to the fetching steps only (lines 379-383).
StartRun ==
    /\ pc \in {"init", "crashed", "done", "raised"}
    /\ pc = "raised" => \A b \in Batches : fut[b].st \in {"done", "handled"}
    /\ runs < MaxRuns
    /\ LET loaded == LoadResults(outFile, ckptFile)
           pending == Pending(Items, loaded)
       IN  /\ results_map' = loaded
           /\ resolvedAtStart' =
                  (DOMAIN _load_existing_results_from_output(outFile))
                      \cup (DOMAIN _load_checkpoint(ckptFile))
           /\ IF Len(pending) = 0
              THEN /\ outFile' = WriteOutput(loaded, tieOrder)
                   /\ chunks' = <<>>
                   /\ fut' = <<>>
                   /\ pc' = "done"
              ELSE /\ chunks' = [b \in DOMAIN Chunks(pending, batch_size) |->
                                   RowIds(Chunks(pending, batch_size)[b])]
                   /\ fut' = [b \in DOMAIN Chunks(pending, batch_size) |-> Queued]
                   /\ pc' = "collect"
                   /\ UNCHANGED outFile
    /\ runs' = runs + 1
    /\ prevOut' = outFile
    /\ prevDone' = (pc = "done")
    /\ prevCkpt' = ckptFile
    /\ saved' = {}
    /\ UNCHANGED <<tieOrder, ckptFile, resume, probe>>

\* A pool thread takes the oldest queued future: ThreadPoolExecutor runs at
\* most max_workers of them at a time.
WorkerStart(b) ==
    /\ Alive
    /\ fut[b].st = "queued"
    /\ \A c \in Batches : c < b => fut[c].st # "queued"
    /\ Cardinality(Busy) < max_workers
    /\ fut' = [fut EXCEPT ![b].st = "running"]
    /\ UNCHANGED <<tieOrder, outFile, ckptFile, pc, results_map, chunks, saved,
                   runs, resolvedAtStart, prevOut, prevDone, prevCkpt, resume, probe>>

\* The future of a worker whose loop state is f, after one more iteration of
\* _call_ai's loop (with the sleep that follows it when the loop goes on) in
\* which create() did `out`.
AfterAttempt(f, out) ==
    LET step == CallAiAttempt(f.attempt, out)
    IN  [st |-> IF step.again THEN "running" ELSE "done",
         attempt |-> f.attempt + 1,
         result |-> step.value]

\* One iteration of _call_ai's loop in the worker of batch b.
Attempt(b) ==
    /\ Alive
    /\ fut[b].st = "running"
    /\ fut[b].attempt < max_retries
    /\ \E out \in Outcomes(Len(chunks[b])) :
          fut' = [fut EXCEPT ![b] = AfterAttempt(fut[b], out)]
    /\ UNCHANGED <<tieOrder, outFile, ckptFile, pc, results_map, chunks, saved,
                   runs, resolvedAtStart, prevOut, prevDone, prevCkpt, resume, probe>>

\* as_completed yields the future of batch b: its results are merged into
\* results_map (lines 345-359) and _save_checkpoint opens the file for
\* writing, which empties it (line 287). An exception of the merge leaves
\* run_ai_scoring; the executor's with-block lets the workers finish first.
Collect(b) ==
    /\ pc = "collect"
    /\ fut[b].st = "done"
    /\ LET m == MergeBatch(results_map, chunks[b], fut[b].result, 1)
       IN  /\ results_map' = m.map
           /\ IF m.raised
              THEN /\ pc' = "raised"
                   /\ UNCHANGED ckptFile
              ELSE /\ pc' = "saving"
                   /\ ckptFile' = OpenForWrite
    /\ fut' = [fut EXCEPT ![b] = Handled]
    /\ UNCHANGED <<tieOrder, outFile, chunks, saved, runs, resolvedAtStart,
                   prevOut, prevDone, prevCkpt, resume, probe>>

\* json.dump's text reaches the file in pieces: a first part is flushed.
SaveFlush ==
    /\ pc = "saving"
    /\ \E n \in 1..(Cardinality(DOMAIN results_map) - 1) :
          /\ Len(ckptFile.entries) < n
          /\ ckptFile' = PartFile(results_map, n)
    /\ UNCHANGED <<tieOrder, outFile, pc, results_map, chunks, fut, saved, runs,
                   resolvedAtStart, prevOut, prevDone, prevCkpt, resume, probe>>

\* The with-block of _save_checkpoint closes the file: the whole text is on
\* disk and the call returns.
SaveClose ==
    /\ pc = "saving"
    /\ ckptFile' = WholeFile(results_map)
    /\ saved' = {b \in Batches : fut[b].st = "handled"}
    /\ pc' = "collect"
    /\ UNCHANGED <<tieOrder, outFile, results_map, chunks, fut, runs,
                   resolvedAtStart, prevOut, prevDone, prevCkpt, resume, probe>>

\* Every future has been handled: the output is written (lines 364-367).
Finish ==
    /\ pc = "collect"
    /\ \A b \in Batches : fut[b].st = "handled"
    /\ outFile' = WriteOutput(results_map, tieOrder)
    /\ pc' = "done"
    /\ UNCHANGED <<tieOrder, ckptFile, results_map, chunks, fut, saved, runs,
                   resolvedAtStart, prevOut, prevDone, prevCkpt, resume, probe>>

\* The process is killed: what it held in memory is gone, the files stay.
Crash ==
    /\ \/ pc \in {"collect", "saving"}
       \/ pc = "raised" /\ \E b \in Batches : fut[b].st \in {"queued", "running"}
    /\ pc' = "crashed"
    /\ results_map' = EmptyMap
    /\ chunks' = <<>>
    /\ fut' = <<>>
    /\ saved' = {}
    /\ UNCHANGED <<tieOrder, outFile, ckptFile, runs, resolvedAtStart, prevOut,
                   prevDone, prevCkpt, resume, probe>>

\* After a run that has written its output, the checkpoint file is removed
\* and the output file kept.
DeleteCheckpoint ==
    /\ pc = "done"
    /\ ckptFile.exists
    /\ outFile.exists
    /\ ckptFile' = NoCheckpoint
    /\ UNCHANGED <<tieOrder, outFile, pc, results_map, chunks, fut, saved, runs,
                   resolvedAtStart, prevOut, prevDone, prevCkpt, resume, probe>>

Next ==
    \/ StartRun
    \/ \E b \in Batches : WorkerStart(b)
    \/ \E b \in Batches : Attempt(b)
    \/ \E b \in Batches : Collect(b)
    \/ SaveFlush
    \/ SaveClose
    \/ Finish
    \/ Crash
    \/ DeleteCheckpoint

Spec == Init /\ [][Next]_vars

\* The engine under either value of the resume option.
InitResume ==
    /\ tieOrder \in {"input", "reversed"}
    /\ outFile = NoOutput
    /\ ckptFile = NoCheckpoint
    /\ pc = "init"
    /\ results_map = EmptyMap
    /\ chunks = <<>>
    /\ fut = <<>>
    /\ saved = {}
    /\ runs = 0
    /\ resolvedAtStart = {}
    /\ prevOut = NoOutput
    /\ prevDone = FALSE
    /\ prevCkpt = NoCheckpoint
    /\ resume \in BOOLEAN
    /\ probe = [op |-> "none"]

SpecResume == InitResume /\ [][Next]_vars

\* The pool's threads are scheduled: a queued future with a free thread is
\* started, and a call in a worker returns or raises within its timeout
\* (line 248) and a sleep ends.
\* One run from its start to its end or to the kill of the process.
FirstRun == runs = 0 /\ StartRun

NextLive ==
    \/ FirstRun
    \/ \E b \in Batches : WorkerStart(b)
    \/ \E b \in Batches : Attempt(b)
    \/ \E b \in Batches : Collect(b)
    \/ SaveFlush
    \/ SaveClose
    \/ Finish
    \/ Crash

SpecLive ==
    /\ Init
    /\ [][NextLive]_vars
    /\ \A b \in 1..NumItems :
          /\ WF_vars(b \in Batches /\ WorkerStart(b))
          /\ WF_vars(b \in Batches /\ Attempt(b))

-----------------------------------------------------------------------------
(* The batching and the merge applied on their own, to inputs drawn from    *)
(* bounded sets.                                                           *)

ProbeRows == [i \in 1..MaxProbeRows |-> i]

InitPure ==
    /\ tieOrder = "input"
    /\ outFile = NoOutput
    /\ ckptFile = NoCheckpoint
    /\ pc = "init"
    /\ results_map = EmptyMap
    /\ chunks = <<>>
    /\ fut = <<>>
    /\ saved = {}
    /\ runs = 0
    /\ resolvedAtStart = {}
    /\ prevOut = NoOutput
    /\ prevDone = FALSE
    /\ prevCkpt = NoCheckpoint
    /\ resume = TRUE
    /\ probe = [op |-> "none"]

\* Lines 322 and 332 for some set of resolved ids and some batch size.
ApplyChunks ==
    /\ probe.op = "none"
    /\ \E resolved \in SUBSET Range(ProbeRows), b \in 1..MaxProbeBatch :
         LET pending == Pending(ProbeRows, [id \in resolved |-> DefaultResult])
         IN  probe' = [op |-> "chunks", pending |-> pending, b |-> b,
                       chunks |-> Chunks(pending, b)]
    /\ UNCHANGED <<tieOrder, outFile, ckptFile, pc, results_map, chunks, fut,
                   saved, runs, resolvedAtStart, prevOut, prevDone,
                   prevCkpt, resume>>

\* Lines 338-359 for one batch and one parsed reply that is an array.
ApplyMerge ==
    /\ probe.op = "none"
    /\ \E first \in 1..2, n \in 1..MaxMergeLen, d \in Documents(MaxMergeLen) :
         /\ d.valid
         /\ d.value.kind = "list"
         /\ LET chunk == SubSeq(ProbeRows, first, first + n - 1)
                m == MergeBatch(EmptyMap, RowIds(chunk), d.value, 1)
            IN  probe' = [op |-> "merge", prompt |-> _build_prompt(chunk),
                          row_ids |-> RowIds(chunk), reply |-> d.value.elems,
                          map |-> m.map, raised |-> m.raised]
    /\ UNCHANGED <<tieOrder, outFile, ckptFile, pc, results_map, chunks, fut,
                   saved, runs, resolvedAtStart, prevOut, prevDone,
                   prevCkpt, resume>>

\* The results run_ai_scoring puts into results_map (lines 354-359).
ResultValues ==
    {DefaultResult, [score |-> 0, reason |-> "no_reason"]}
        \cup {[score |-> sc, reason |-> ServiceReason(sc)] : sc \in Scores}

\* _save_checkpoint of some map, then _load_checkpoint of the file it wrote,
\* of the file cut after `cut` entries, and of no file.
ApplySaveLoad ==
    /\ probe.op = "none"
    /\ \E ids \in {S \in SUBSET Range(ProbeRows) : Cardinality(S) <= MaxSavedIds} :
         \E data \in [ids -> ResultValues], cut \in 0..Cardinality(ids) :
            probe' = [op |-> "saveload", data |-> data, cut |-> cut,
                      file |-> WholeFile(data),
                      loaded |-> _load_checkpoint(WholeFile(data)),
                      loadedCut |-> _load_checkpoint(PartFile(data, cut)),
                      loadedAbsent |-> _load_checkpoint(NoCheckpoint)]
    /\ UNCHANGED <<tieOrder, outFile, ckptFile, pc, results_map, chunks, fut,
                   saved, runs, resolvedAtStart, prevOut, prevDone,
                   prevCkpt, resume>>

\* _load_existing_results_from_output of an output file written for some
\* results of the items, with or without a RowId column.
ApplyLoadOutput ==
    /\ probe.op = "none"
    /\ \E rm \in [Range(Items) -> ResultValues], tie \in {"input", "reversed"},
          withRowId \in BOOLEAN :
         LET file == IF withRowId THEN WriteOutput(rm, tie)
                     ELSE WriteOutputNoRowId(rm, tie)
         IN  probe' = [op |-> "loadoutput", results |-> rm, withRowId |-> withRowId,
                       order |-> [i \in DOMAIN OutputRows(rm, tie) |->
                                     OutputRows(rm, tie)[i].RowId],
                       loaded |-> _load_existing_results_from_output(file)]
    /\ UNCHANGED <<tieOrder, outFile, ckptFile, pc, results_map, chunks, fut,
                   saved, runs, resolvedAtStart, prevOut, prevDone,
                   prevCkpt, resume>>

NextPure == ApplyChunks \/ ApplyMerge \/ ApplySaveLoad \/ ApplyLoadOutput

SpecPure == InitPure /\ [][NextPure]_vars

-----------------------------------------------------------------------------
(* One call of _call_ai on its own, for a batch of n rows, with the log of  *)
(* what the service did on each attempt and of the sleep that followed.    *)

\* What an attempt in which create() did `out` failed as: the exception the
\* service raised, or MalformedResponse for a reply that is no JSON document
\* once its code fence is taken off, or "none".
FailureOf(out) ==
    IF out.exc # "none" THEN out.exc
    ELSE IF ~out.doc.valid THEN "MalformedResponse"
    ELSE "none"

InitCall ==
    /\ tieOrder = "input"
    /\ outFile = NoOutput
    /\ ckptFile = NoCheckpoint
    /\ pc = "init"
    /\ results_map = EmptyMap
    /\ chunks = <<>>
    /\ fut = <<>>
    /\ saved = {}
    /\ runs = 0
    /\ resolvedAtStart = {}
    /\ prevOut = NoOutput
    /\ prevDone = FALSE
    /\ prevCkpt = NoCheckpoint
    /\ resume = TRUE
    /\ probe \in {[op |-> "call", n |-> n, log |-> <<>>,
                   f |-> [Queued EXCEPT !.st = "running"],
                   merged |-> FALSE, map |-> EmptyMap, raised |-> FALSE] :
                  n \in 1..MaxCallLen}

\* One iteration of the loop of _call_ai.
CallStep ==
    /\ probe.op = "call"
    /\ probe.f.st = "running"
    /\ probe.f.attempt < max_retries
    /\ \E out \in Outcomes(probe.n) :
         probe' = [probe EXCEPT
                     !.f = AfterAttempt(@, out),
                     !.log = Append(@, [fail |-> FailureOf(out),
                                        reply |-> out.doc.value,
                                        slept |-> CallAiAttempt(probe.f.attempt, out).sleep])]
    /\ UNCHANGED <<tieOrder, outFile, ckptFile, pc, results_map, chunks, fut,
                   saved, runs, resolvedAtStart, prevOut, prevDone,
                   prevCkpt, resume>>

\* The collector's merge (lines 345-359) of what the call returned, for the
\* batch of the first n rows.
CallMerge ==
    /\ probe.op = "call"
    /\ probe.f.st = "done"
    /\ ~probe.merged
    /\ LET m == MergeBatch(EmptyMap, RowIds(SubSeq(ProbeRows, 1, probe.n)),
                           probe.f.result, 1)
       IN  probe' = [probe EXCEPT !.merged = TRUE, !.map = m.map,
                                  !.raised = m.raised]
    /\ UNCHANGED <<tieOrder, outFile, ckptFile, pc, results_map, chunks, fut,
                   saved, runs, resolvedAtStart, prevOut, prevDone,
                   prevCkpt, resume>>

NextCall == CallStep \/ CallMerge

SpecCall == InitCall /\ [][NextCall]_vars

-----------------------------------------------------------------------------
(* The item frame of the pipeline, run after run: fetch_from_dblp, then    *)
(* fetch_and_index_abstracts, which keeps the frame's index, then the      *)
(* RowId column of run_ai_scoring.                                         *)

\* A record as DBLP returns it: its year, and what drop_duplicates tells
\* records apart by (DOI and Title).
Fetched == [Year : {2022, 2023}, Key : {"p", "q", "r"}]

\* pd.DataFrame(all_rows), and pd.read_excel of a file written without its
\* index: the rows under a fresh index 0, 1, 2, ...
Frame(rows) ==
    [i \in 1..Len(rows) |-> [idx |-> i - 1, Year |-> rows[i].Year, Key |-> rows[i].Key]]

RECURSIVE SortByYear(_, _, _)
\* df.sort_values(by=["Year"], ascending=False): each row keeps its index
\* label; rows of one year in input order or in reverse, as the build's sort
\* has it.
SortByYear(df, years, tie) ==
    IF years = {} THEN <<>>
    ELSE LET top == CHOOSE y \in years : \A z \in years : z <= y
             same == SelectSeq(df, LAMBDA r : r.Year = top)
         IN  (IF tie = "input" THEN same ELSE Reverse(same))
                 \o SortByYear(df, years \ {top}, tie)

\* df.drop_duplicates(subset=["DOI", "Title"], keep="first"): the first row of
\* each key, with its index label.
DropDuplicates(df) ==
    LET keep == {i \in DOMAIN df : \A j \in 1..(i - 1) : df[j].Key # df[i].Key}
    IN  [n \in 1..Cardinality(keep) |-> df[SetToSeq(keep)[n]]]

\* df.to_excel(path, index=False): the rows in order, without index labels.
ToExcel(df) ==
    [exists |-> TRUE, rows |-> [i \in DOMAIN df |-> [Year |-> df[i].Year, Key |-> df[i].Key]]]

NoSearchFile == [exists |-> FALSE, rows |-> <<>>]

\* fetch_from_dblp: the frame it returns and the search file it leaves.
fetch_from_dblp(res, search, raw, tie) ==
    IF res /\ search.exists
    THEN [df |-> Frame(search.rows), search |-> search]
    ELSE LET df == DropDuplicates(
                     SortByYear(Frame(raw), {raw[i].Year : i \in DOMAIN raw}, tie))
         IN  [df |-> df, search |-> ToExcel(df)]

\* df["RowId"] = df.index (line 314), by item.
RowIdOf(df) ==
    [k \in {df[i].Key : i \in DOMAIN df} |->
        df[CHOOSE i \in DOMAIN df : df[i].Key = k].idx]

InitFetch ==
    /\ tieOrder \in {"input", "reversed"}
    /\ outFile = NoOutput
    /\ ckptFile = NoCheckpoint
    /\ pc = "init"
    /\ results_map = EmptyMap
    /\ chunks = <<>>
    /\ fut = <<>>
    /\ saved = {}
    /\ runs = 0
    /\ resolvedAtStart = {}
    /\ prevOut = NoOutput
    /\ prevDone = FALSE
    /\ prevCkpt = NoCheckpoint
    /\ resume \in BOOLEAN
    /\ probe \in {[op |-> "pipeline", raw |-> raw, search |-> NoSearchFile,
                   rowIds |-> <<>>, labels |-> <<>>] :
                  raw \in UNION {[1..n -> Fetched] : n \in 1..MaxFetched}}

\* One run of run_full_pipeline up to the RowId column of run_ai_scoring.
PipelineRun ==
    /\ probe.op = "pipeline"
    /\ runs < MaxRuns
    /\ runs' = runs + 1
    /\ LET f == fetch_from_dblp(resume, probe.search, probe.raw, tieOrder)
       IN  probe' = [probe EXCEPT
                       !.search = f.search,
                       !.rowIds = Append(@, RowIdOf(f.df)),
                       !.labels = Append(@, [i \in DOMAIN f.df |-> f.df[i].idx])]
    /\ UNCHANGED <<tieOrder, outFile, ckptFile, pc, results_map, chunks, fut,
                   saved, resolvedAtStart, prevOut, prevDone, prevCkpt, resume>>

SpecFetch == InitFetch /\ [][PipelineRun]_vars

-----------------------------------------------------------------------------
(* The properties. *)

RECURSIVE Concat(_)
Concat(ss) == IF Len(ss) = 0 THEN <<>> ELSE Head(ss) \o Concat(Tail(ss))

Started == pc \in {"collect", "saving", "raised", "done"}

\* C1: in every run, the ids in the batches submitted to the remote service
\* are exactly the input ids that were neither in the prior output nor in
\* the checkpoint as loaded when the run started; no id resolved at start is
\* in any batch.
C1_DispatchedIsPending ==
    Started =>
        /\ UNION {Range(chunks[b]) : b \in Batches} = Range(Items) \ resolvedAtStart
        /\ \A b \in Batches : Range(chunks[b]) \cap resolvedAtStart = {}

\* A relaunched run that found some ids resolved and has called the service
\* for the others.
C1_Witness ==
    /\ runs = 2
    /\ resolvedAtStart # {}
    /\ \E b \in Batches : fut[b].st = "done" /\ fut[b].attempt > 0

\* C2: whenever the process may be killed, the checkpoint file, if there is
\* one, holds a whole map: it is never empty, truncated or half-written.
C2_CheckpointAlwaysWhole == ckptFile.exists => ckptFile.closed

\* C3: at whatever moment the process is killed, the items of every batch
\* whose results the collector has recorded (its save has returned) are in
\* the checkpoint a relaunch would load.
C3_RecordedBatchesPersisted ==
    \A b \in saved : Range(chunks[b]) \subseteq DOMAIN _load_checkpoint(ckptFile)

\* C4: every run that has ended has written a final output with exactly one
\* row per input item.
C4_EveryRunWritesEveryRow ==
    pc \in {"done", "raised"} =>
        /\ outFile.exists
        /\ Len(outFile.rows) = Len(Items)
        /\ {outFile.rows[i].RowId : i \in DOMAIN outFile.rows} = Range(Items)

\* C5: no outcome of a batch's remote call makes the run raise before the
\* final output is written.
C5_NoOutcomeAbortsTheRun == pc # "raised"

\* C6: a run started from the files a completed run left makes no remote
\* call (it submits no batch) and writes an output identical to that run's,
\* row for row.
C6_SecondRunIdentical ==
    (pc = "done" /\ prevDone) => (chunks = <<>> /\ outFile = prevOut)

\* A second run has ended after a first one that scored batches and ended.
C6_Witness ==
    /\ pc = "done"
    /\ prevDone
    /\ ckptFile.exists
    /\ \E i \in DOMAIN outFile.rows : outFile.rows[i].AI_Score > 0
    /\ \E i \in DOMAIN outFile.rows : outFile.rows[i].AI_Score = 0

\* C7: a call makes at most 3 attempts; after its k-th attempt failed as
\* RateLimited, k < 3, it sleeps 5*k (5, then 10) and goes on; an attempt that
\* did not fail is the last, and the call returns what its reply parsed to,
\* not None; after a third RateLimited attempt the call returns None without
\* sleeping.
C7_BoundedBackoff ==
    probe.op = "call" =>
        /\ Len(probe.log) <= 3
        /\ probe.f.attempt = Len(probe.log)
        /\ \A k \in DOMAIN probe.log :
              /\ (probe.log[k].fail = "RateLimited" /\ k < 3) =>
                    /\ probe.log[k].slept = 5 * k
                    /\ Len(probe.log) > k \/ probe.f.st = "running"
              /\ (probe.log[k].fail = "RateLimited" /\ k = 3) =>
                    /\ probe.log[k].slept = 0
                    /\ probe.f.st = "done"
                    /\ probe.f.result = None
              /\ probe.log[k].fail = "none" =>
                    /\ k = Len(probe.log)
                    /\ probe.f.st = "done"
                    /\ probe.f.result = probe.log[k].reply
                    /\ probe.f.result # None

\* RateLimited on attempts 1 and 2, sleeps of 5 and 10, and a third attempt
\* whose reply, an array with one element per row, is what the call returned.
C7_Witness ==
    /\ probe.op = "call"
    /\ Len(probe.log) = 3
    /\ probe.log[1].fail = "RateLimited" /\ probe.log[1].slept = 5
    /\ probe.log[2].fail = "RateLimited" /\ probe.log[2].slept = 10
    /\ probe.log[3].fail = "none"
    /\ probe.f.st = "done"
    /\ probe.f.result.kind = "list"
    /\ Len(probe.f.result.elems) = probe.n

\* C8: an attempt that failed as Timeout, Transport or MalformedResponse is
\* the last of its call: no sleep and no attempt follows it, and the call
\* returns None.
C8_OnlyRateLimitedIsRetried ==
    probe.op = "call" =>
        \A k \in DOMAIN probe.log :
            probe.log[k].fail \in {"Timeout", "Transport", "MalformedResponse"} =>
                /\ k = Len(probe.log)
                /\ probe.log[k].slept = 0
                /\ probe.f.st = "done"
                /\ probe.f.result = None

\* C11: once a batch whose call got a reply that is no JSON document after
\* fence stripping, or a document that is no array, has been merged, the merge
\* has not raised and every row of the batch has score 0 and the default
\* reason.
C11_MalformedGivesDefaults ==
    (probe.op = "call" /\ probe.merged) =>
        \A k \in DOMAIN probe.log :
            (\/ probe.log[k].fail = "MalformedResponse"
             \/ probe.log[k].fail = "none" /\ probe.log[k].reply.kind # "list")
            =>  /\ ~probe.raised
                /\ \A j \in 1..probe.n :
                      /\ j \in DOMAIN probe.map
                      /\ probe.map[j] =
                            [score |-> 0, reason |-> "AI_insufficient_or_failed"]

\* C9: the batches of n pending rows with batch size b are ceil(n/b) in
\* number, non-empty, of at most b rows, of exactly b rows except possibly
\* the last, pairwise disjoint, and concatenate to the pending rows in order.
C9_Partition ==
    probe.op = "chunks" =>
        LET cs == probe.chunks
            n == Len(probe.pending)
        IN  /\ Len(cs) = (n + probe.b - 1) \div probe.b
            /\ \A c \in DOMAIN cs : Len(cs[c]) >= 1 /\ Len(cs[c]) <= probe.b
            /\ \A c \in DOMAIN cs : c < Len(cs) => Len(cs[c]) = probe.b
            /\ \A c, d \in DOMAIN cs : c # d => Range(cs[c]) \cap Range(cs[d]) = {}
            /\ Concat(cs) = probe.pending

\* 12 pending rows in batches of 5: sizes 5, 5, 2.
C9_Witness ==
    /\ probe.op = "chunks"
    /\ Len(probe.pending) = 12
    /\ probe.b = 5
    /\ [c \in DOMAIN probe.chunks |-> Len(probe.chunks[c])] = <<5, 5, 2>>

\* C10: for a batch of n rows and a reply array of m objects, the row at
\* position j <= min(n, m) gets the score and reason of the j-th element,
\* whatever its id field, the rows at positions j > m get the default result,
\* and the recorded row ids are in the order of the request.
C10_PositionalAlignment ==
    (/\ probe.op = "merge"
     /\ \A j \in DOMAIN probe.reply : j <= Len(probe.row_ids) => probe.reply[j].obj)
    =>  /\ ~probe.raised
        /\ DOMAIN probe.map = Range(probe.row_ids)
        /\ \A j \in DOMAIN probe.row_ids :
              /\ probe.prompt[j].row = probe.row_ids[j]
              /\ probe.map[probe.row_ids[j]] =
                    IF j <= Len(probe.reply)
                    THEN [score |-> Get(probe.reply[j].f, "score", 0),
                          reason |-> Get(probe.reply[j].f, "reason", "no_reason")]
                    ELSE [score |-> 0, reason |-> "AI_insufficient_or_failed"]

\* Three rows, a reply of two objects whose id fields run backwards and
\* whose scores differ: the third row has the default.
C10_Witness ==
    /\ probe.op = "merge"
    /\ Len(probe.row_ids) = 3
    /\ Len(probe.reply) = 2
    /\ probe.reply[1].obj /\ probe.reply[2].obj
    /\ probe.reply[1].f.id = 2
    /\ probe.reply[1].f.score # probe.reply[2].f.score
    /\ probe.map[probe.row_ids[3]].score = 0

\* C12: a run that finds every input id resolved at start submits no batch
\* and makes no remote call, and ends normally having written the output: one
\* row per item, by descending score.
C12_NothingPendingWritesAndStops ==
    (Started /\ Range(Items) \subseteq resolvedAtStart) =>
        /\ pc = "done"
        /\ chunks = <<>>
        /\ fut = <<>>
        /\ outFile.exists
        /\ {outFile.rows[i].RowId : i \in DOMAIN outFile.rows} = Range(Items)
        /\ Len(outFile.rows) = Len(Items)
        /\ \A i, j \in DOMAIN outFile.rows :
              i < j => outFile.rows[i].AI_Score >= outFile.rows[j].AI_Score

\* A relaunch after a kill that came between the last save and the writing
\* of the output: the checkpoint resolves every id, with scores that differ.
C12_Witness ==
    /\ pc = "done"
    /\ runs = 2
    /\ ~prevDone
    /\ ~prevOut.exists
    /\ Range(Items) \subseteq resolvedAtStart
    /\ \E i, j \in DOMAIN outFile.rows :
          outFile.rows[i].AI_Score > outFile.rows[j].AI_Score

\* The result the files held for id when the run started: the entry of the
\* checkpoint if the checkpoint was readable and had one, otherwise the row of
\* the prior output.
AtStart(id) ==
    LET ck == IF prevCkpt.exists /\ prevCkpt.closed THEN prevCkpt.entries ELSE <<>>
        inCk == {i \in DOMAIN ck : ToInt(ck[i].k) = id}
        inOut == {i \in DOMAIN prevOut.rows : prevOut.rows[i].RowId = id}
    IN  IF inCk # {} THEN ck[CHOOSE i \in inCk : TRUE].v
        ELSE LET r == prevOut.rows[CHOOSE i \in inOut : TRUE]
             IN  [score |-> r.AI_Score, reason |-> r.AI_Reason]

\* C13: all through a run, results_map holds for every id resolved at start
\* the result the files held for it at start (the checkpoint's before the
\* prior output's), and the row of that id in the output the run writes
\* carries that result.
C13_ResolvedKeepLoadedResult ==
    Started =>
        \A id \in resolvedAtStart :
            /\ id \in DOMAIN results_map
            /\ results_map[id] = AtStart(id)
            /\ pc = "done" =>
                  \E i \in DOMAIN outFile.rows :
                      /\ outFile.rows[i].RowId = id
                      /\ outFile.rows[i].AI_Score = AtStart(id).score
                      /\ outFile.rows[i].AI_Reason = AtStart(id).reason

\* A relaunch after a kill: some ids were in the checkpoint with a score the
\* service gave, the others were sent out and scored, and the run has written
\* its output.
C13_Witness ==
    /\ pc = "done"
    /\ runs = 2
    /\ chunks # <<>>
    /\ \E id \in resolvedAtStart : AtStart(id).score > 0
    /\ \E id \in Range(Items) \ resolvedAtStart :
          id \in DOMAIN results_map /\ results_map[id].score > 0

C15_BoundedPoolEveryBatchCompletes ==
    /\ [](Cardinality({b \in Batches : fut[b].st = "running"}) <= max_workers)
    /\ [][\A b \in Batches :
             fut[b].st = "queued" =>
                \/ pc' = "crashed"
                \/ b \in DOMAIN fut' /\ fut'[b].st \in {"queued", "running"}]_vars
    /\ \A b \in 1..NumItems :
          (b \in Batches /\ fut[b].st = "queued")
              ~> (\/ pc = "crashed"
                  \/ b \in Batches /\ fut[b].st \in {"done", "handled"})

\* The pool is full with a worker between two attempts of its call while
\* another batch waits in the queue.
C15_Witness ==
    /\ Cardinality({b \in Batches : fut[b].st = "running"}) = max_workers
    /\ \E b \in Batches : fut[b].st = "running" /\ fut[b].attempt > 0
    /\ \E b \in Batches : fut[b].st = "queued"

\* C16: whenever no save is in progress, after whatever completions, saves,
\* kills and relaunches, the checkpoint on disk still holds every id it held
\* when the current run started.
C16_CheckpointNeverLosesAnId ==
    (ckptFile.exists /\ pc # "saving") =>
        DOMAIN _load_checkpoint(prevCkpt) \subseteq DOMAIN _load_checkpoint(ckptFile)

\* C17: the map _load_checkpoint returns for the file a completed save wrote
\* is the map that was saved, with the same ids, scores and reasons; for a
\* file cut short, and for no file, it returns the empty map.
C17_SaveLoadRoundTrip ==
    probe.op = "saveload" =>
        /\ DOMAIN probe.loaded = DOMAIN probe.data
        /\ \A id \in DOMAIN probe.data : probe.loaded[id] = probe.data[id]
        /\ probe.loadedCut = EmptyMap
        /\ probe.loadedAbsent = EmptyMap

\* A map of two ids, one of two digits, with different results, and its file
\* cut after one entry.
C17_Witness ==
    /\ probe.op = "saveload"
    /\ \E a, b \in DOMAIN probe.data :
          /\ a < 10 /\ b >= 10
          /\ probe.data[a].score # probe.data[b].score
          /\ probe.loaded[b] = probe.data[b]
          /\ probe.file.entries[2].k = <<1, b - 10>>
    /\ probe.cut = 1

\* C18: with resume enabled a run sends out exactly the ids that neither the
\* prior output nor the checkpoint resolved; with resume disabled it ignores
\* both files and sends out every input id.
C18_ResumeControlsScoring ==
    Started =>
        UNION {Range(chunks[b]) : b \in Batches} =
            IF resume THEN Range(Items) \ resolvedAtStart ELSE Range(Items)

\* C19: the rows of the output are in descending order of score, and rows of
\* equal score are in input order, in the output of a run that scored batches
\* and in the output of a run that found nothing pending.
C19_StableDescendingOrder ==
    outFile.exists =>
        \A i, j \in DOMAIN outFile.rows :
            i < j =>
                \/ outFile.rows[i].AI_Score > outFile.rows[j].AI_Score
                \/ /\ outFile.rows[i].AI_Score = outFile.rows[j].AI_Score
                   /\ outFile.rows[i].RowId < outFile.rows[j].RowId

\* C20: in every run of the pipeline over the same fetched records the RowIds
\* are pairwise distinct, and every item has the RowId it had in the first
\* run, whether the run fetched, sorted and de-duplicated the records or
\* reloaded them from the search file.
C20_RowIdStableAcrossRuns ==
    probe.op = "pipeline" =>
        \A r \in DOMAIN probe.rowIds :
            /\ \A i, j \in DOMAIN probe.labels[r] :
                  i # j => probe.labels[r][i] # probe.labels[r][j]
            /\ probe.rowIds[r] = probe.rowIds[1]

\* C21: every result loaded from a prior output file, with or without a
\* RowId column, is under the id of an input item and is the score and reason
\* that were computed for that item.
C21_OutputResultsKeyedByItem ==
    probe.op = "loadoutput" =>
        \A id \in DOMAIN probe.loaded :
            /\ id \in DOMAIN probe.results
            /\ probe.loaded[id] = probe.results[id]

=============================================================================
